---- MODULE Spec2Model ----
(***************************************************************************)
(* Model of src/app.py (CYA Quantum Tracker, a Streamlit script).          *)
(*                                                                         *)
(* The script is re-run from top to bottom on every user interaction.      *)
(* One action of the model is one complete run of the script, triggered    *)
(* by one interaction: a slider / number-input change, the Add Round       *)
(* button, the Full Reset button, or an edit in the round-log table.       *)
(* st.session_state (roundsc, ga_pattern, forecast_msi) and the widget     *)
(* values survive from one run to the next; everything else is recomputed. *)
(*                                                                         *)
(* Numbers with decimals (multipliers, thresholds, forecast values, MDI)   *)
(* are held in hundredths: 2.0 is 200, 0.01 is 1.  Scores, MSI and         *)
(* momentum are integers.  A pandas NaN is the value NaN below; every      *)
(* comparison with it is false, as in numpy.                               *)
(*                                                                         *)
(* Not represented: the real-valued statistics (volatility, anomaly count, *)
(* confidence bands, slope, win rate), which feed no state; table edits    *)
(* other than a change of one multiplier cell (rows added or deleted in    *)
(* the editor, edits of the score cell).  Timestamps are ticks of a clock  *)
(* that advances on every Add Round.                                       *)
(***************************************************************************)
EXTENDS Integers, Sequences, FiniteSets, TLC

VARIABLES
    roundsc,        \* st.session_state.roundsc: the stored round log
    ga_pattern,     \* st.session_state.ga_pattern
    forecast_msi,   \* st.session_state.forecast_msi: the cached forecast
    WINDOW_SIZE,    \* slider value
    PINK_THRESHOLD, \* number input value (hundredths)
    clock,          \* datetime.now(): one tick per Add Round press
    edits,          \* number of table edits made so far
    df,             \* the data frame analysed by the latest run
    out             \* what the latest run rendered

vars == <<roundsc, ga_pattern, forecast_msi, WINDOW_SIZE, PINK_THRESHOLD,
          clock, edits, df, out>>

(***************************************************************************)
(* Program constants.                                                      *)
(***************************************************************************)
PurpleThreshold == 200
DefaultWindow == 20
DefaultPink == 1000
TailLimit == 30
MdiMinRows == 6
MdiUpper == 120
DetectMinLen == 15
ForecastMargin == 3
ForecastSteps == 3
ChartMinRows == 3
ZonePink == 6
ZonePurple == 3
ZonePullback == 3

(***************************************************************************)
(* Bounds of the model and the input values it draws from.                 *)
(***************************************************************************)
MaxRounds == 8
MaxSeries == 15
SeriesWarmup == 2
MaxLog == 31
MaxEditRounds == 4
MaxEdits == 1

Mults == {1, 300, 1000}
SeriesMults == {1, 300}
PinkThresholds == {300, 1000}
WindowSizes == {5, 20}
SeriesWindows == {5, 12}
LogMults == {1}
LogWindows == {5, 6, 20}

(***************************************************************************)
(* NaN-aware numbers.                                                      *)
(***************************************************************************)
NaN == [def |-> FALSE, val |-> 0]
Num(v) == [def |-> TRUE, val |-> v]
NanSub(a, b) == IF a.def /\ b.def THEN Num(a.val - b.val) ELSE NaN
NanGt(a, b) == a.def /\ b.def /\ a.val > b.val
NanGeq(a, k) == a.def /\ a.val >= k
NanLeq(a, k) == a.def /\ a.val <= k
NanLt(a, k) == a.def /\ a.val < k

\* round(n/d) to the nearest integer, ties to the even one (numpy's rint)
RoundHalfEven(n, d) ==
    LET nn == IF d < 0 THEN -n ELSE n
        dd == IF d < 0 THEN -d ELSE d
        q == nn \div dd
        r == nn % dd
    IN IF 2 * r < dd THEN q
       ELSE IF 2 * r > dd THEN q + 1
       ELSE IF q % 2 = 0 THEN q ELSE q + 1

(***************************************************************************)
(* Classification.                                                         *)
(***************************************************************************)
Score(mult, pink) ==
    IF mult >= pink THEN 2 ELSE IF mult >= PurpleThreshold THEN 1 ELSE -1

Type(x, pink) ==
    IF x >= pink THEN "Pink" ELSE IF x >= PurpleThreshold THEN "Purple" ELSE "Blue"

(***************************************************************************)
(* Series: pandas rolling(w).sum() keeps a running sum, adding the entering*)
(* value and removing the leaving one, and yields NaN until w observations *)
(* are in the window; cumsum is the running total.                         *)
(***************************************************************************)
RollingPartial(scores, w) ==
    LET acc[i \in 0..Len(scores)] ==
            IF i = 0 THEN 0
            ELSE acc[i-1] + scores[i] - (IF i > w THEN scores[i-w] ELSE 0)
    IN [i \in 1..Len(scores) |-> Num(acc[i])]

Rolling(scores, w) ==
    LET acc[i \in 0..Len(scores)] ==
            IF i = 0 THEN 0
            ELSE acc[i-1] + scores[i] - (IF i > w THEN scores[i-w] ELSE 0)
    IN [i \in 1..Len(scores) |-> IF i >= w THEN Num(acc[i]) ELSE NaN]

Cumsum(scores) ==
    LET acc[i \in 0..Len(scores)] ==
            IF i = 0 THEN 0 ELSE acc[i-1] + scores[i]
    IN [i \in 1..Len(scores) |-> acc[i]]

\* lines 99-108: the frame built from the stored log; type, msi and momentum
\* are (re)assigned, timestamp, multiplier and score are taken as stored
Frame(log, w, pink) ==
    LET scores == [i \in 1..Len(log) |-> log[i].score]
        msi == Rolling(scores, w)
        mom == Cumsum(scores)
    IN [i \in 1..Len(log) |->
          [timestamp |-> log[i].timestamp,
           multiplier |-> log[i].multiplier,
           score |-> log[i].score,
           type |-> Type(log[i].multiplier, pink),
           msi |-> msi[i],
           momentum |-> mom[i]]]

(***************************************************************************)
(* MDI (lines 110-125).  mdi_value is None, nan or a number in hundredths. *)
(***************************************************************************)
MdiNone == [kind |-> "None", val |-> 0]
MdiNan == [kind |-> "nan", val |-> 0]
MdiNum(v) == [kind |-> "num", val |-> v]

Mdi(d) ==
    LET n == Len(d) IN
    IF n >= MdiMinRows
    THEN LET msi_delta == NanSub(d[n].msi, d[n-5].msi)
             mom_delta == d[n].momentum - d[n-5].momentum
         IN IF mom_delta # 0
            THEN IF msi_delta.def
                 THEN LET v == RoundHalfEven(100 * msi_delta.val, mom_delta)
                      IN [value |-> MdiNum(v),
                          note |-> IF v > MdiUpper THEN "Upward Divergence"
                                   ELSE IF v < -MdiUpper THEN "Downward Divergence"
                                   ELSE "Neutral Divergence"]
                 ELSE [value |-> MdiNan, note |-> "Neutral Divergence"]
            ELSE [value |-> MdiNone, note |-> "N/A"]
    ELSE [value |-> MdiNone, note |-> "N/A"]

(***************************************************************************)
(* Entry decision (lines 343-359).                                         *)
(***************************************************************************)
Zone(latest_msi) ==
    IF NanGeq(latest_msi, ZonePink) THEN "PINK Entry Zone"
    ELSE IF NanGeq(latest_msi, ZonePurple) /\ NanLt(latest_msi, ZonePink)
         THEN "PURPLE Surge Opportunity"
    ELSE IF NanLeq(latest_msi, -ZonePullback) THEN "Pullback Danger"
    ELSE "Neutral"

(***************************************************************************)
(* Forecast (lines 296-305).  avg_score is the mean of the last w scores;  *)
(* the frame has at least w+3 rows here, so msi[last] is a number.  The    *)
(* result is rounded to hundredths.                                        *)
(***************************************************************************)
SumLast(d, w) ==
    LET acc[i \in 0..w] == IF i = 0 THEN 0 ELSE acc[i-1] + d[Len(d) - i + 1].score
    IN acc[w]

ForecastShifted(d, w) ==
    [i \in 1..ForecastSteps |->
        RoundHalfEven(100 * (d[Len(d)].msi.val * w + SumLast(d, w) * (i - 1)), w)]

Forecast(d, w) ==
    [i \in 1..ForecastSteps |->
        RoundHalfEven(100 * (d[Len(d)].msi.val * w + SumLast(d, w) * i), w)]

NextForecast(d, w, cached) ==
    IF Len(d) >= w + ForecastMargin THEN Forecast(d, w) ELSE cached

(***************************************************************************)
(* PatternDetector.detect (lines 13-28): only the trend field is modelled; *)
(* volatility and the anomaly count are real-valued statistics.            *)
(***************************************************************************)
EmptyPatterns == [found |-> FALSE, trend |-> "N/A"]

detectSixthLast(msi_values) ==
    IF Len(msi_values) < DetectMinLen THEN EmptyPatterns
    ELSE LET last_val == msi_values[Len(msi_values)]
             fifth_last == msi_values[Len(msi_values) - 5]
         IN [found |-> TRUE,
             trend |-> IF NanGt(last_val, fifth_last) THEN "Up" ELSE "Down"]

detect(msi_values) ==
    IF Len(msi_values) < DetectMinLen THEN EmptyPatterns
    ELSE LET last_val == msi_values[Len(msi_values)]
             fifth_last == msi_values[Len(msi_values) - 4]
         IN [found |-> TRUE,
             trend |-> IF NanGt(last_val, fifth_last) THEN "Up" ELSE "Down"]

MsiValues(d) == [i \in 1..Len(d) |-> d[i].msi]

(***************************************************************************)
(* The chart (lines 128-288) is built before the forecast is recomputed:   *)
(* it reads the forecast cached by an earlier run.                         *)
(***************************************************************************)
ForecastReadByChartLate(cached, recomputed) == recomputed

ForecastReadByChart(cached, recomputed) == cached

ChartForecast(d, fc) ==
    IF fc # <<>> /\ Len(d) > ChartMinRows THEN fc ELSE <<>>

(***************************************************************************)
(* The table (lines 290-293): the last 30 rows are shown, possibly edited, *)
(* and what the editor returns replaces the stored log.                    *)
(***************************************************************************)
TailRows(d) ==
    IF Len(d) <= TailLimit THEN d ELSE SubSeq(d, Len(d) - TailLimit + 1, Len(d))

NoEdit == [row |-> 0, multiplier |-> 0]

Edited(t, edit) ==
    IF edit.row = 0 THEN t
    ELSE [t EXCEPT ![edit.row].multiplier = edit.multiplier]

(***************************************************************************)
(* What a run renders.                                                     *)
(***************************************************************************)
FirstRoundInfo ==
    [info |-> TRUE, zone |-> "none", mdi_value |-> MdiNone, mdi_note |-> "none",
     chart_drawn |-> FALSE, chart |-> <<>>,
     bubble_shown |-> FALSE, bubble |-> <<>>, trend |-> "none"]

\* lines 99-365: the script body after the button handlers, on the log `log`;
\* d and fc are bound once, as the script computes df and the forecast once
Run(log, w, pink, edit) ==
    IF log = <<>>
    THEN /\ roundsc' = log
         /\ df' = <<>>
         /\ forecast_msi' = forecast_msi
         /\ out' = FirstRoundInfo
    ELSE \E d \in {Frame(log, w, pink)} :
         \E fc \in {NextForecast(d, w, forecast_msi)} :
         LET mdi == Mdi(d)
             shown == Len(d) >= w + ForecastMargin
         IN /\ df' = d
            /\ roundsc' = Edited(TailRows(d), edit)
            /\ forecast_msi' = fc
            /\ out' = [info |-> FALSE,
                       zone |-> Zone(d[Len(d)].msi),
                       mdi_value |-> mdi.value,
                       mdi_note |-> mdi.note,
                       chart_drawn |-> TRUE,
                       chart |-> ChartForecast(d, ForecastReadByChart(forecast_msi, fc)),
                       bubble_shown |-> shown,
                       bubble |-> IF shown THEN fc ELSE <<>>,
                       trend |-> IF shown THEN detect(MsiValues(d)).trend ELSE "none"]

(***************************************************************************)
(* Initial state: the first run of a new session (lines 66-77, 364-365).   *)
(***************************************************************************)
Init ==
    /\ roundsc = <<>>
    /\ ga_pattern = "None"
    /\ forecast_msi = <<>>
    /\ WINDOW_SIZE = DefaultWindow
    /\ PINK_THRESHOLD = DefaultPink
    /\ clock = 0
    /\ edits = 0
    /\ df = <<>>
    /\ out = FirstRoundInfo

(***************************************************************************)
(* Actions: one script run each.                                           *)
(***************************************************************************)
SetWindow(w) ==
    /\ w # WINDOW_SIZE
    /\ WINDOW_SIZE' = w
    /\ Run(roundsc, w, PINK_THRESHOLD, NoEdit)
    /\ UNCHANGED <<ga_pattern, PINK_THRESHOLD, clock, edits>>

SetPink(p) ==
    /\ p # PINK_THRESHOLD
    /\ PINK_THRESHOLD' = p
    /\ Run(roundsc, WINDOW_SIZE, p, NoEdit)
    /\ UNCHANGED <<ga_pattern, WINDOW_SIZE, clock, edits>>

\* a run that changes neither the log nor the configuration
\* (the Strict RTT checkbox, or typing a multiplier)
Rerun ==
    /\ Run(roundsc, WINDOW_SIZE, PINK_THRESHOLD, NoEdit)
    /\ UNCHANGED <<ga_pattern, WINDOW_SIZE, PINK_THRESHOLD, clock, edits>>

ResetKeepsForecast ==
    /\ roundsc' = <<>>
    /\ ga_pattern' = "None"
    /\ forecast_msi' = forecast_msi
    /\ df' = <<>>
    /\ out' = FirstRoundInfo
    /\ UNCHANGED <<WINDOW_SIZE, PINK_THRESHOLD, clock, edits>>

\* lines 79-83, then the re-run of st.rerun() on the empty log
Reset ==
    /\ roundsc' = <<>>
    /\ ga_pattern' = "None"
    /\ forecast_msi' = <<>>
    /\ df' = <<>>
    /\ out' = FirstRoundInfo
    /\ UNCHANGED <<WINDOW_SIZE, PINK_THRESHOLD, clock, edits>>

AddRound(mult) ==
    /\ clock' = clock + 1
    /\ Run(Append(roundsc, [timestamp |-> clock,
                            multiplier |-> mult,
                            score |-> Score(mult, PINK_THRESHOLD)]),
           WINDOW_SIZE, PINK_THRESHOLD, NoEdit)
    /\ UNCHANGED <<ga_pattern, WINDOW_SIZE, PINK_THRESHOLD, edits>>

\* the user changes the multiplier cell of row `row` of the table shown by
\* the previous run; this run analyses the stored log and stores the
\* editor's result
EditRound(row, mult) ==
    /\ roundsc # <<>>
    /\ row \in 1..Len(TailRows(roundsc))
    /\ TailRows(roundsc)[row].multiplier # mult
    /\ edits' = edits + 1
    /\ Run(roundsc, WINDOW_SIZE, PINK_THRESHOLD, [row |-> row, multiplier |-> mult])
    /\ UNCHANGED <<ga_pattern, WINDOW_SIZE, PINK_THRESHOLD, clock>>

(***************************************************************************)
(* Specifications.                                                         *)
(***************************************************************************)
Next ==
    \/ clock < MaxRounds /\ \E m \in Mults : AddRound(m)
    \/ \E w \in WindowSizes : SetWindow(w)
    \/ Rerun
    \/ Reset

Spec == Init /\ [][Next]_vars

\* all interactions, threshold changes and table edits included, on short logs
NextEdit ==
    \/ clock < MaxEditRounds /\ \E m \in Mults : AddRound(m)
    \/ edits < MaxEdits /\ \E r \in 1..MaxEditRounds, m \in Mults : EditRound(r, m)
    \/ \E w \in WindowSizes : SetWindow(w)
    \/ \E p \in PinkThresholds : SetPink(p)
    \/ Rerun
    \/ Reset

SpecEdit == Init /\ [][NextEdit]_vars

\* long MSI series: the slider already set, the log still empty; the first
\* SeriesWarmup rounds entered are 0.01, the later ones vary
InitSeries ==
    /\ roundsc = <<>>
    /\ ga_pattern = "None"
    /\ forecast_msi = <<>>
    /\ WINDOW_SIZE \in SeriesWindows
    /\ PINK_THRESHOLD = DefaultPink
    /\ clock = 0
    /\ edits = 0
    /\ df = <<>>
    /\ out = FirstRoundInfo

NextSeries ==
    \/ clock < SeriesWarmup /\ AddRound(1)
    \/ clock >= SeriesWarmup /\ clock < MaxSeries /\ \E m \in SeriesMults : AddRound(m)
    \/ Rerun

SpecSeries == InitSeries /\ [][NextSeries]_vars

\* long logs: no Full Reset, no table edit
NextLog ==
    \/ clock < MaxLog /\ \E m \in LogMults : AddRound(m)
    \/ \E w \in LogWindows : SetWindow(w)
    \/ Rerun

SpecLog == Init /\ [][NextLog]_vars

(***************************************************************************)
(* Properties.                                                             *)
(***************************************************************************)
RECURSIVE SumRange(_, _, _)
SumRange(d, lo, hi) ==
    IF lo > hi THEN 0 ELSE d[lo].score + SumRange(d, lo + 1, hi)

DivergenceLabels ==
    {"Upward Divergence", "Downward Divergence", "Neutral Divergence"}

\* C1: every analysed row has score = classify(multiplier, current
\* pinkThreshold) and a score that agrees with its type
C1_ScoreRederived ==
    \A i \in 1..Len(df) :
        /\ df[i].score = (IF df[i].multiplier >= PINK_THRESHOLD THEN 2
                          ELSE IF df[i].multiplier >= 200 THEN 1 ELSE -1)
        /\ (df[i].type = "Pink") <=> (df[i].score = 2)
        /\ (df[i].type = "Purple") <=> (df[i].score = 1)
        /\ (df[i].type = "Blue") <=> (df[i].score = -1)

\* C2: without Reset and table edits, the stored log holds every round that
\* was appended, in order: after n appends its length is n
C2_AppendOnly ==
    /\ Len(roundsc) = clock
    /\ \A i \in 1..Len(roundsc) : roundsc[i].timestamp = i - 1

\* C3: Reset leaves the log empty and the forecast and pattern caches
\* cleared, the run that follows renders no derived output, and the forecast
\* cache stays empty until a run computes a forecast
C3_ResetClears ==
    [][/\ Reset =>
            /\ Len(roundsc') = 0
            /\ forecast_msi' = <<>>
            /\ ga_pattern' = "None"
            /\ df' = <<>>
            /\ out'.info
            /\ out'.zone = "none"
            /\ out'.mdi_note = "none"
            /\ ~out'.chart_drawn
            /\ ~out'.bubble_shown
       /\ (forecast_msi = <<>> /\ forecast_msi' # <<>>) =>
            /\ Len(df') >= WINDOW_SIZE' + 3
            /\ out'.bubble = forecast_msi'
      ]_vars

C3_Witness ==
    /\ roundsc = <<>>
    /\ forecast_msi = <<>>
    /\ out.info
    /\ clock >= 8
    /\ WINDOW_SIZE = 5

\* C4: msi[i] is undefined while fewer than windowSize rounds exist up to i
\* and is otherwise the sum of the last windowSize scores up to i; a run over
\* the same scores and window yields the same series
C4_MsiRollingSum ==
    /\ [](\A i \in 1..Len(df) :
            IF i < WINDOW_SIZE
            THEN ~df[i].msi.def
            ELSE /\ df[i].msi.def
                 /\ df[i].msi.val = SumRange(df, i - WINDOW_SIZE + 1, i))
    /\ [][(/\ WINDOW_SIZE' = WINDOW_SIZE
           /\ Len(df') = Len(df)
           /\ \A i \in 1..Len(df) : df'[i].score = df[i].score)
          => \A i \in 1..Len(df) : df'[i].msi = df[i].msi]_vars

C4_Witness ==
    /\ Len(df) > WINDOW_SIZE
    /\ ~df[WINDOW_SIZE - 1].msi.def
    /\ df[Len(df)].msi.def
    /\ df[Len(df)].msi.val # df[Len(df) - 1].msi.val

\* C5: MDI is not available with fewer than 6 rounds or a zero momentum
\* delta; a divergence label is emitted only with both MSI values defined,
\* and then the value is the ratio and the label follows the 1.2 thresholds
C5_MdiOnlyWhenDefined ==
    LET n == Len(df) IN
    /\ (n < 6 \/ df[n].momentum = df[n-5].momentum) =>
            /\ out.mdi_value = MdiNone
            /\ out.mdi_note \in {"N/A", "none"}
    /\ out.mdi_note \in DivergenceLabels =>
            /\ n >= 6
            /\ df[n].msi.def
            /\ df[n-5].msi.def
            /\ out.mdi_value.kind = "num"
            /\ out.mdi_value.val =
                 RoundHalfEven(100 * (df[n].msi.val - df[n-5].msi.val),
                               df[n].momentum - df[n-5].momentum)
            /\ out.mdi_note = (IF out.mdi_value.val > 120 THEN "Upward Divergence"
                               ELSE IF out.mdi_value.val < -120 THEN "Downward Divergence"
                               ELSE "Neutral Divergence")

\* C6: a zone label is emitted only when the latest MSI is defined (>= 6
\* Pink, 3..6 Purple, <= -3 Pullback, else Neutral); none when undefined
C6_ZoneOnlyWhenDefined ==
    df # <<>> =>
        LET m == df[Len(df)].msi IN
        IF m.def
        THEN out.zone = (IF m.val >= 6 THEN "PINK Entry Zone"
                         ELSE IF m.val >= 3 THEN "PURPLE Surge Opportunity"
                         ELSE IF m.val <= -3 THEN "Pullback Danger"
                         ELSE "Neutral")
        ELSE out.zone = "none"

\* C7: after every run the cached forecast is the forecast of the analysed
\* log and window, or is cleared when the log has fewer than windowSize+3
\* rounds
C7_ForecastFresh ==
    IF Len(df) >= WINDOW_SIZE + 3
    THEN /\ Len(forecast_msi) = 3
         /\ \A k \in 0..2 :
              forecast_msi[k+1] =
                 RoundHalfEven(100 * (df[Len(df)].msi.val * WINDOW_SIZE
                                      + SumRange(df, Len(df) - WINDOW_SIZE + 1, Len(df)) * (k + 1)),
                               WINDOW_SIZE)
    ELSE forecast_msi = <<>>

\* C8: in a run whose log has at least windowSize+3 rounds, forecast[k] is
\* msi[last] + avgScore*(k+1), k = 0..2, to two decimals, avgScore being the
\* mean of the last windowSize scores
C8_ForecastFormula ==
    Len(df) >= WINDOW_SIZE + 3 =>
        LET n == Len(df)
            S == SumRange(df, n - WINDOW_SIZE + 1, n)
        IN /\ Len(forecast_msi) = 3
           /\ out.bubble = forecast_msi
           /\ \A k \in 0..2 :
                LET exact == 100 * (df[n].msi.val * WINDOW_SIZE + S * (k + 1))
                    err == forecast_msi[k+1] * WINDOW_SIZE - exact
                IN 2 * err <= WINDOW_SIZE /\ -2 * err <= WINDOW_SIZE

\* a forecast with a non-zero slope whose values needed rounding
C8_Witness ==
    /\ Len(df) >= WINDOW_SIZE + 3
    /\ Len(forecast_msi) = 3
    /\ forecast_msi[1] # forecast_msi[2]
    /\ (100 * df[Len(df)].msi.val * (WINDOW_SIZE + 1)) % WINDOW_SIZE # 0

\* C9 as stated: with at least 15 MSI samples, trend is Up exactly when
\* msi[last] > msi[last-5]
C9_TrendLagFive ==
    (Len(df) >= 15 /\ out.bubble_shown) =>
        LET n == Len(df) IN
        (out.trend = "Up") <=>
            (df[n].msi.def /\ df[n-5].msi.def /\ df[n].msi.val > df[n-5].msi.val)

\* C9 amended: with at least 15 MSI samples, trend is Up exactly when
\* msi[last] and msi[last-4] (the fifth-from-last sample) are both defined
\* and msi[last] > msi[last-4], and Down otherwise
C9_TrendFifthLast ==
    (Len(df) >= 15 /\ out.bubble_shown) =>
        LET n == Len(df) IN
        out.trend =
            (IF df[n].msi.def /\ df[n-4].msi.def /\ df[n].msi.val > df[n-4].msi.val
             THEN "Up" ELSE "Down")

\* Up is reported although msi[last] does not exceed msi[last-5]
C9_Witness ==
    /\ Len(df) >= 15
    /\ out.trend = "Up"
    /\ df[Len(df)].msi.val <= df[Len(df) - 5].msi.val

====
